---- MODULE Spec2Model ----
(***************************************************************************)
(* A model of the ITR-UI Streamlit application (src/app).                  *)
(*                                                                         *)
(* Part 1 models the page script src/app/ui.py as Streamlit runs it: every *)
(* user interaction changes one widget and reruns the whole script from    *)
(* top to bottom against the session state that survives between reruns.   *)
(* One action is one interaction together with the rerun it causes.        *)
(*                                                                         *)
(* Part 2 models the grid builder plot_grouped_heatmap of                  *)
(* src/app/charts.py as a function of a grouped slice.                     *)
(*                                                                         *)
(* Part 3 models the step of run_calculation (src/app/actions.py) that     *)
(* turns the engine's aggregated scores into the aggregated table.         *)
(***************************************************************************)
EXTENDS Integers, Sequences, FiniteSets, TLC

VARIABLES
    provider_file,        \* ui.py:48  value of the provider file_uploader
    portfolio_file,       \* ui.py:55  value of the portfolio file_uploader
    agg_method,           \* ui.py:64  selectbox
    selected_scopes,      \* ui.py:70  multiselect
    selected_timeframes,  \* ui.py:76  multiselect
    chart_type,           \* ui.py:143 selectbox (results section)
    group_1,              \* ui.py:165/174
    group_2,              \* ui.py:166/180
    heatmap_timeframe,    \* ui.py:167/187
    heatmap_scope,        \* ui.py:168/193
    session_state,        \* st.session_state: survives reruns
    clicks,               \* clicks on "Run calculation" so far
    calls,                \* run_calculation calls made at ui.py:97 so far
    last,                 \* what the latest rerun did
    pc,                   \* grid builder: "input" or "done"
    slice,                \* grid builder: the grouped slice, in iteration order
    grouping,             \* grid builder: <<group_1, group_2>>
    built,                \* grid builder: what plot_grouped_heatmap computed
    aggregated_scores,    \* actions.py:54 the engine's aggregated scores
    input_scores,         \* the aggregated scores as the engine returned them
    aggregated_df,        \* actions.py:55 the aggregated table made last
    tables                \* the aggregated tables made so far, in order

uiVars   == <<provider_file, portfolio_file, agg_method, selected_scopes,
             selected_timeframes, chart_type, group_1, group_2,
             heatmap_timeframe, heatmap_scope, session_state, clicks, calls, last>>
gridVars == <<pc, slice, grouping, built>>
reshapeVars == <<aggregated_scores, input_scores, aggregated_df, tables>>
vars     == <<uiVars, gridVars, reshapeVars>>

(***************************************************************************)
(* Bounds of the model.                                                    *)
(***************************************************************************)
MaxClicks == 2

MaxCalls == MaxClicks + 1

(***************************************************************************)
(* Domains of the widgets. The enumerations of the ITR package are cut to  *)
(* two members each; None is Python's None.                                *)
(***************************************************************************)
None == "None"

ProviderFiles == {"provider.xlsx"}

PortfolioFiles == {"portfolio.csv"}

AggMethods == {"WATS", "TETS"}

DefaultAggMethod == "WATS"

Scopes == {"S1", "S2"}

TimeFrames == {"SHORT", "LONG"}

ChartTypes == {"Bar Chart", "Scatter Plot", "Heatmap", "Line Chart"}

Group1Options == <<"sector", "region", "industry">>

Group2Options == <<"region", "sector", "industry">>

Group2Index == 1

(***************************************************************************)
(* The faults the collaborators of run_calculation can raise, by the step  *)
(* of actions.py that raises; "none" is a run in which nothing raises.     *)
(***************************************************************************)
Faults == {"none", "provider", "portfolio", "engine", "coverage", "export"}

GroupedFaults == {"none", "engine"}

(***************************************************************************)
(* Session state. A key that was never assigned is Absent; an assigned key *)
(* holds Some(value).                                                      *)
(***************************************************************************)
Absent == <<>>

Some(v) == <<v>>

Get(opt, default) == IF opt = Absent THEN default ELSE opt[1]

BundleKeys == {"provider", "companies", "amended_portfolio", "selected_timeframes",
               "selected_scopes", "agg_method", "company_scores_df", "aggregated_df",
               "coverage", "excel_bytes", "calculation_complete"}

\* The session after the first script run: only run_now is set (ui.py:84-85).
FreshSession ==
    [run_now |-> FALSE,
     provider |-> Absent, companies |-> Absent, amended_portfolio |-> Absent,
     selected_timeframes |-> Absent, selected_scopes |-> Absent, agg_method |-> Absent,
     company_scores_df |-> Absent, aggregated_df |-> Absent, coverage |-> Absent,
     excel_bytes |-> Absent, calculation_complete |-> Absent]

Bundle(ss) == [k \in BundleKeys |-> ss[k]]

(***************************************************************************)
(* actions.py: run_calculation. The values it computes are kept as terms   *)
(* over the inputs they are computed from.                                 *)
(***************************************************************************)
RunCalculationParams ==
    {"provider_file", "portfolio_file", "selected_timeframes", "selected_scopes",
     "agg_method"}

Provider(pf) == <<"ExcelProvider", pf>>

Companies(cf) == <<"portfolio", cf>>

AmendedPortfolio(pf, cf, tfs, scs, ag) == <<"amended", Provider(pf), Companies(cf), tfs, scs, ag>>

CompanyScoresDf(ap) == <<"company_scores", ap>>

AggregatedDf(ap) == <<"aggregated", ap>>

Coverage(ap, ag) == <<"coverage", ap, ag>>

ExcelBytes(cs, agdf) == <<"xlsx", cs, agdf>>

\* actions.py:52-76: the four values returned, from the amended portfolio.
ReturnValue(ap, ag) ==
    <<CompanyScoresDf(ap), AggregatedDf(ap), Coverage(ap, ag),
      ExcelBytes(CompanyScoresDf(ap), AggregatedDf(ap))>>

\* A call run_calculation(pf, cf, tfs, scs, ag, **kw): Python binds the
\* arguments to the signature first (an unknown keyword is a TypeError), then
\* runs the body, which stops at the first step that raises.
run_calculation(pf, cf, tfs, scs, ag, kw, fault) ==
    IF ~(kw \subseteq RunCalculationParams)
    THEN [exc |-> "TypeError", ret |-> <<>>]
    ELSE IF fault # "none"
    THEN [exc |-> fault, ret |-> <<>>]
    ELSE [exc |-> "none", ret |-> ReturnValue(AmendedPortfolio(pf, cf, tfs, scs, ag), ag)]

(***************************************************************************)
(* ui.py:91-123, the block guarded by session_state.run_now.               *)
(***************************************************************************)
\* The keyword arguments of the call at ui.py:97-104.
CallKeywords == {"return_intermediates"}

\* The number of names the result is unpacked into at ui.py:105.
UnpackArity == 7

\* ui.py:105: the exception, if any, that the call r or the unpacking of its
\* result into seven names raises.
Raised(r) ==
    IF r.exc # "none" THEN r.exc
    ELSE IF Len(r.ret) # UnpackArity THEN "ValueError"
    ELSE "none"

\* ui.py:105-118: unpack the seven results and assign the eleven keys.
StoreResults(ss, ret, tfs, scs, ag) ==
    [ss EXCEPT !.provider = Some(ret[5]),
               !.companies = Some(ret[6]),
               !.amended_portfolio = Some(ret[7]),
               !.selected_timeframes = Some(tfs),
               !.selected_scopes = Some(scs),
               !.agg_method = Some(ag),
               !.company_scores_df = Some(ret[1]),
               !.aggregated_df = Some(ret[2]),
               !.coverage = Some(ret[3]),
               !.excel_bytes = Some(ret[4]),
               !.calculation_complete = Some(TRUE)]

\* A try statement whose finally clause does not reset the flag.
TryBlock_NoReset(ss, r, tfs, scs, ag) ==
    [ss |-> IF Raised(r) = "none" THEN StoreResults(ss, r.ret, tfs, scs, ag) ELSE ss,
     called |-> TRUE,
     exc |-> Raised(r)]

\* ui.py:95-123 with r the outcome of the call at ui.py:97: an exception of
\* the call or of the unpacking is caught and shown and nothing is stored;
\* otherwise the results are stored; the finally clause resets the flag on
\* both paths.
TryBlock(ss, r, tfs, scs, ag) ==
    [ss |-> [(IF Raised(r) = "none" THEN StoreResults(ss, r.ret, tfs, scs, ag) ELSE ss)
                EXCEPT !.run_now = FALSE],
     called |-> TRUE,
     exc |-> Raised(r)]

\* A handler that records the chosen parameters before it calls the engine.
RunNowBlock_StoreParamsFirst(ss, pf, cf, tfs, scs, ag, fault) ==
    IF ~(pf # None /\ cf # None)
    THEN [ss |-> ss, called |-> FALSE, exc |-> "none"]
    ELSE TryBlock([ss EXCEPT !.selected_timeframes = Some(tfs),
                             !.selected_scopes = Some(scs),
                             !.agg_method = Some(ag)],
                  run_calculation(pf, cf, tfs, scs, ag, CallKeywords, fault),
                  tfs, scs, ag)

\* ui.py:91-123, entered with run_now set. With a file missing only the hint
\* is shown and the try statement, its finally clause included, is not
\* entered. Otherwise run_calculation is called inside the try statement.
RunNowBlock(ss, pf, cf, tfs, scs, ag, fault) ==
    IF ~(pf # None /\ cf # None)
    THEN [ss |-> ss, called |-> FALSE, exc |-> "none"]
    ELSE TryBlock(ss, run_calculation(pf, cf, tfs, scs, ag, CallKeywords, fault),
                  tfs, scs, ag)

(***************************************************************************)
(* ui.py:200-229, the "Generate Charts" handler, and charts.py:16-56.      *)
(***************************************************************************)
\* app.actions.run_grouped_calculation is imported and called by ui.py but
\* defined in no file of src/app; it is taken from section 4.4 of the
\* specification: one more engine invocation, which returns the grouped tree
\* or raises, and which writes nothing.
run_grouped_calculation(provider, companies, tfs, scs, ag, grp, gfault) ==
    IF gfault # "none"
    THEN [exc |-> gfault, tree |-> <<>>]
    ELSE [exc |-> "none", tree |-> <<"grouped", provider, companies, tfs, scs, ag, grp>>]

MsgSameGroups == "Primary and Secondary grouping must be different!"

MsgNeedsGrouped == "Heatmap requires grouped aggregations. Please configure grouping parameters."

\* charts.py:44-56: what render_charts draws, and the error it shows.
render_charts(ct, grouped_aggregations, analysis_parameters) ==
    IF ct = "Bar Chart" THEN [chart |-> "bar", errors |-> {}]
    ELSE IF ct = "Scatter Plot" THEN [chart |-> "scatter", errors |-> {}]
    ELSE IF ct = "Heatmap"
    THEN IF grouped_aggregations = Absent \/ analysis_parameters = Absent
         THEN [chart |-> "none", errors |-> {MsgNeedsGrouped}]
         ELSE [chart |-> "heatmap", errors |-> {}]
    ELSE IF ct = "Line Chart" THEN [chart |-> "line", errors |-> {}]
    ELSE [chart |-> "none", errors |-> {}]

\* ui.py:218-229: the call of render_charts that ends the handler, with the
\* errors shown before it.
Draw(ss, ct, grouped_aggregations, analysis_parameters, grouped, shown) ==
    [ss |-> ss, grouped |-> grouped, gexc |-> "none",
     chart |-> render_charts(ct, grouped_aggregations, analysis_parameters).chart,
     errors |-> shown \cup render_charts(ct, grouped_aggregations, analysis_parameters).errors]

\* A handler that keeps the grouped tree in the session.
AfterGrouped_StoreGrouped(ss, g, ct, analysis_parameters) ==
    IF g.exc # "none"
    THEN [ss |-> [ss EXCEPT !.aggregated_df = Absent], grouped |-> TRUE, gexc |-> g.exc,
          chart |-> "none", errors |-> {}]
    ELSE Draw([ss EXCEPT !.aggregated_df = Some(g.tree)], ct, Some(g.tree),
              analysis_parameters, TRUE, {})

\* ui.py:209-229 with g the outcome of the call at ui.py:209. An exception
\* of that call is not caught: the rerun stops there. Otherwise the tree is
\* bound to a local name and handed to render_charts.
AfterGrouped(ss, g, ct, analysis_parameters) ==
    IF g.exc # "none"
    THEN [ss |-> ss, grouped |-> TRUE, gexc |-> g.exc, chart |-> "none", errors |-> {}]
    ELSE Draw(ss, ct, Some(g.tree), analysis_parameters, TRUE, {})

\* A handler without the comparison of the two grouping dimensions.
GenerateCharts_NoGroupCheck(ss, ct, g1, g2, htf, hsc, gfault) ==
    IF ct = "Heatmap"
    THEN AfterGrouped(ss,
                      run_grouped_calculation(ss.provider, ss.companies, <<htf>>, <<hsc>>,
                                              ss.agg_method, <<g1, g2>>, gfault),
                      ct, Some(<<<<htf>>, <<hsc>>, <<g1, g2>>>>))
    ELSE Draw(ss, ct, Absent, Absent, FALSE, {})

\* ui.py:200-229. For a heatmap with equal dimensions an error is shown and
\* the engine is not called; with different dimensions
\* run_grouped_calculation is called with the one-element lists
\* [heatmap_timeframe] and [heatmap_scope], whatever they hold. No session
\* key is assigned.
GenerateCharts(ss, ct, g1, g2, htf, hsc, gfault) ==
    IF ct = "Heatmap"
    THEN IF g1 = g2
         THEN Draw(ss, ct, Absent, Some(<<<<htf>>, <<hsc>>, <<g1, g2>>>>), FALSE,
                   {MsgSameGroups})
         ELSE AfterGrouped(ss,
                           run_grouped_calculation(ss.provider, ss.companies, <<htf>>,
                                                   <<hsc>>, ss.agg_method, <<g1, g2>>,
                                                   gfault),
                           ct, Some(<<<<htf>>, <<hsc>>, <<g1, g2>>>>))
    ELSE Draw(ss, ct, Absent, Absent, FALSE, {})

(***************************************************************************)
(* One run of the script ui.py, top to bottom.                             *)
(***************************************************************************)
\* ui.py:126-235 after the run block, whose outcome is rb: the results
\* section, and with it the chart handler, is drawn only once
\* calculation_complete is stored.
ResultsSection(rb, gen_btn, ct, g1, g2, htf, hsc, gfault) ==
    IF Get(rb.ss.calculation_complete, FALSE) /\ gen_btn
    THEN [called |-> rb.called, exc |-> rb.exc] @@
         GenerateCharts(rb.ss, ct, g1, g2, htf, hsc, gfault)
    ELSE [ss |-> rb.ss, called |-> rb.called, exc |-> rb.exc, grouped |-> FALSE,
          gexc |-> "none", chart |-> "none", errors |-> {}]

\* ui.py:91: the run block is entered whenever the flag is set.
RunSection(ss, pf, cf, tfs, scs, ag, fault) ==
    IF ss.run_now
    THEN RunNowBlock(ss, pf, cf, tfs, scs, ag, fault)
    ELSE [ss |-> ss, called |-> FALSE, exc |-> "none"]

\* run_btn and gen_btn tell which button, if any, caused this rerun: a
\* Streamlit button returns True only in the rerun its click caused.
\* ui.py:87-88 sets the flag on a click of "Run calculation".
Script(ss, run_btn, gen_btn, pf, cf, tfs, scs, ag, ct, g1, g2, htf, hsc, fault, gfault) ==
    ResultsSection(RunSection(IF run_btn THEN [ss EXCEPT !.run_now = TRUE] ELSE ss,
                              pf, cf, tfs, scs, ag, fault),
                   gen_btn, ct, g1, g2, htf, hsc, gfault)

\* The rerun that follows an interaction, run against the new widget values.
Rerun(cause, fault, gfault) ==
    \E r \in {Script(session_state, cause = "run_btn", cause = "generate_charts_btn",
                     provider_file', portfolio_file', selected_timeframes',
                     selected_scopes', agg_method', chart_type', group_1', group_2',
                     heatmap_timeframe', heatmap_scope', fault, gfault)} :
       /\ (~r.called => fault = "none")
       /\ (~r.grouped => gfault = "none")
       /\ session_state' = r.ss
       /\ calls' = calls + (IF r.called THEN 1 ELSE 0)
       /\ calls' <= MaxCalls
       /\ last' = [cause |-> cause, called |-> r.called, exc |-> r.exc, fault |-> fault,
                   grouped |-> r.grouped, gexc |-> r.gexc, gfault |-> gfault,
                   chart |-> r.chart, errors |-> r.errors]
       /\ UNCHANGED <<gridVars, reshapeVars>>

mainWidgets == <<provider_file, portfolio_file, agg_method, selected_scopes,
                 selected_timeframes>>

chartWidgets == <<chart_type, group_1, group_2, heatmap_timeframe, heatmap_scope>>

\* ui.py:126: the results section was drawn by the latest run.
ResultsShown == Get(session_state.calculation_complete, FALSE)

\* The options of a selectbox over a stored list; an empty list yields None.
SelectboxValues(stored) ==
    IF Get(stored, {}) = {} THEN {None} ELSE Get(stored, {})

(***************************************************************************)
(* The interactions.                                                       *)
(***************************************************************************)
UploadProvider ==
    \E f \in ProviderFiles \cup {None}, fault \in Faults :
        /\ f # provider_file
        /\ provider_file' = f
        /\ UNCHANGED <<portfolio_file, agg_method, selected_scopes, selected_timeframes,
                       chartWidgets, clicks>>
        /\ Rerun("provider_uploader", fault, "none")

UploadPortfolio ==
    \E f \in PortfolioFiles \cup {None}, fault \in Faults :
        /\ f # portfolio_file
        /\ portfolio_file' = f
        /\ UNCHANGED <<provider_file, agg_method, selected_scopes, selected_timeframes,
                       chartWidgets, clicks>>
        /\ Rerun("portfolio_uploader", fault, "none")

SelectAggMethod ==
    \E a \in AggMethods, fault \in Faults :
        /\ a # agg_method
        /\ agg_method' = a
        /\ UNCHANGED <<provider_file, portfolio_file, selected_scopes, selected_timeframes,
                       chartWidgets, clicks>>
        /\ Rerun("agg_method", fault, "none")

SelectScopes ==
    \E s \in Scopes, fault \in Faults :
        /\ selected_scopes' = IF s \in selected_scopes THEN selected_scopes \ {s}
                              ELSE selected_scopes \cup {s}
        /\ UNCHANGED <<provider_file, portfolio_file, agg_method, selected_timeframes,
                       chartWidgets, clicks>>
        /\ Rerun("selected_scopes", fault, "none")

SelectTimeframes ==
    \E t \in TimeFrames, fault \in Faults :
        /\ selected_timeframes' = IF t \in selected_timeframes
                                  THEN selected_timeframes \ {t}
                                  ELSE selected_timeframes \cup {t}
        /\ UNCHANGED <<provider_file, portfolio_file, agg_method, selected_scopes,
                       chartWidgets, clicks>>
        /\ Rerun("selected_timeframes", fault, "none")

ClickRun ==
    \E fault \in Faults :
        /\ clicks < MaxClicks
        /\ clicks' = clicks + 1
        /\ UNCHANGED <<mainWidgets, chartWidgets>>
        /\ Rerun("run_btn", fault, "none")

\* The grouping and slice selectors exist only while the chart type is
\* "Heatmap" (ui.py:165-198); drawn anew they hold their defaults.
SelectChartType ==
    \E ct \in ChartTypes, fault \in Faults :
        /\ ResultsShown
        /\ ct # chart_type
        /\ chart_type' = ct
        /\ IF ct = "Heatmap"
           THEN /\ group_1' = Group1Options[1]
                /\ group_2' = Group2Options[Group2Index + 1]
                /\ heatmap_timeframe' \in SelectboxValues(session_state.selected_timeframes)
                /\ heatmap_scope' \in SelectboxValues(session_state.selected_scopes)
           ELSE /\ group_1' = None
                /\ group_2' = None
                /\ heatmap_timeframe' = None
                /\ heatmap_scope' = None
        /\ UNCHANGED <<mainWidgets, clicks>>
        /\ Rerun("chart_type", fault, "none")

SelectGroup1 ==
    \E i \in DOMAIN Group1Options, fault \in Faults :
        /\ ResultsShown
        /\ chart_type = "Heatmap"
        /\ Group1Options[i] # group_1
        /\ group_1' = Group1Options[i]
        /\ UNCHANGED <<mainWidgets, chart_type, group_2, heatmap_timeframe, heatmap_scope,
                       clicks>>
        /\ Rerun("group_1", fault, "none")

SelectGroup2 ==
    \E i \in DOMAIN Group2Options, fault \in Faults :
        /\ ResultsShown
        /\ chart_type = "Heatmap"
        /\ Group2Options[i] # group_2
        /\ group_2' = Group2Options[i]
        /\ UNCHANGED <<mainWidgets, chart_type, group_1, heatmap_timeframe, heatmap_scope,
                       clicks>>
        /\ Rerun("group_2", fault, "none")

SelectHeatmapTimeframe ==
    \E t \in SelectboxValues(session_state.selected_timeframes), fault \in Faults :
        /\ ResultsShown
        /\ chart_type = "Heatmap"
        /\ t # heatmap_timeframe
        /\ heatmap_timeframe' = t
        /\ UNCHANGED <<mainWidgets, chart_type, group_1, group_2, heatmap_scope, clicks>>
        /\ Rerun("heatmap_timeframe", fault, "none")

SelectHeatmapScope ==
    \E s \in SelectboxValues(session_state.selected_scopes), fault \in Faults :
        /\ ResultsShown
        /\ chart_type = "Heatmap"
        /\ s # heatmap_scope
        /\ heatmap_scope' = s
        /\ UNCHANGED <<mainWidgets, chart_type, group_1, group_2, heatmap_timeframe, clicks>>
        /\ Rerun("heatmap_scope", fault, "none")

ClickGenerate ==
    \E fault \in Faults, gfault \in GroupedFaults :
        /\ ResultsShown
        /\ UNCHANGED <<mainWidgets, chartWidgets, clicks>>
        /\ Rerun("generate_charts_btn", fault, gfault)

\* The download button is drawn after the chart handler (ui.py:230), so a
\* rerun the handler's exception stopped has not drawn it.
ClickDownload ==
    \E fault \in Faults :
        /\ ResultsShown
        /\ last.gexc = "none"
        /\ UNCHANGED <<mainWidgets, chartWidgets, clicks>>
        /\ Rerun("download_btn", fault, "none")

(***************************************************************************)
(* The application as src/app has it.                                      *)
(***************************************************************************)
GridIdle ==
    /\ pc = "off"
    /\ slice = <<>>
    /\ grouping = <<>>
    /\ built = <<>>

ReshapeIdle ==
    /\ aggregated_scores = <<>>
    /\ input_scores = <<>>
    /\ aggregated_df = <<>>
    /\ tables = <<>>

FirstRun ==
    [cause |-> "load", called |-> FALSE, exc |-> "none", fault |-> "none",
     grouped |-> FALSE, gexc |-> "none", gfault |-> "none", chart |-> "none",
     errors |-> {}]

\* The page after its first script run: no file, the default settings
\* (ui.py:68, 73, 79), run_now = False, no results section.
UiInit ==
    /\ provider_file = None
    /\ portfolio_file = None
    /\ agg_method = DefaultAggMethod
    /\ selected_scopes = Scopes
    /\ selected_timeframes = TimeFrames
    /\ chart_type = None
    /\ group_1 = None
    /\ group_2 = None
    /\ heatmap_timeframe = None
    /\ heatmap_scope = None
    /\ session_state = FreshSession
    /\ clicks = 0
    /\ calls = 0
    /\ last = FirstRun

Init == UiInit /\ GridIdle /\ ReshapeIdle

Next ==
    \/ UploadProvider
    \/ UploadPortfolio
    \/ SelectAggMethod
    \/ SelectScopes
    \/ SelectTimeframes
    \/ ClickRun

Spec == Init /\ [][Next]_vars

(***************************************************************************)
(* The results section (ui.py:126-235) on its own. In Spec no run stores   *)
(* calculation_complete, so the section is never drawn there. SpecResults  *)
(* starts from the session that ui.py:105-118 stores when handed the seven *)
(* values its unpacking names, and runs the uploads, the run button and    *)
(* the interactions of the results section. The three settings widgets     *)
(* only change arguments of run_calculation; they are left to Spec.        *)
(***************************************************************************)
\* The seven values ui.py:105 unpacks, in its order: the four that
\* run_calculation returns and the three intermediates it computes.
ResultsWithIntermediates(pf, cf, tfs, scs, ag) ==
    run_calculation(pf, cf, tfs, scs, ag, {}, "none").ret
        \o <<Provider(pf), Companies(cf), AmendedPortfolio(pf, cf, tfs, scs, ag)>>

InitResults ==
    /\ provider_file \in ProviderFiles
    /\ portfolio_file \in PortfolioFiles
    /\ agg_method = DefaultAggMethod
    /\ selected_scopes \in SUBSET Scopes
    /\ selected_timeframes \in SUBSET TimeFrames
    /\ chart_type = "Bar Chart"
    /\ group_1 = None
    /\ group_2 = None
    /\ heatmap_timeframe = None
    /\ heatmap_scope = None
    /\ session_state =
           StoreResults(FreshSession,
                        ResultsWithIntermediates(provider_file, portfolio_file,
                                                 selected_timeframes, selected_scopes,
                                                 agg_method),
                        selected_timeframes, selected_scopes, agg_method)
    /\ clicks = 1
    /\ calls = 1
    /\ last = [FirstRun EXCEPT !.cause = "run_btn", !.called = TRUE]
    /\ GridIdle
    /\ ReshapeIdle

NextResults ==
    \/ UploadProvider
    \/ UploadPortfolio
    \/ ClickRun
    \/ SelectChartType
    \/ SelectGroup1
    \/ SelectGroup2
    \/ SelectHeatmapTimeframe
    \/ SelectHeatmapScope
    \/ ClickGenerate
    \/ ClickDownload

SpecResults == InitResults /\ [][NextResults]_vars

(***************************************************************************)
(* Part 2: charts.py:176-229, plot_grouped_heatmap.                        *)
(*                                                                         *)
(* A string is a sequence of characters. A grouped slice is the dict       *)
(* grouped_aggregations[timeframe][scope].grouped in its iteration order:  *)
(* a sequence of entries with distinct keys. Each entry also remembers the *)
(* pair of categorical values the engine joined into its key. A score is a *)
(* natural number (tenths of a degree).                                    *)
(***************************************************************************)
MaxKeys == 3

Delim == "-"

\* Unicode code points, the order Python compares characters by.
CharCode(c) == CASE c = "-" -> 45 [] c = "a" -> 97 [] c = "b" -> 98

\* The categorical values of the model without delimiter: "a", "ab", "b".
Values == {<<"a">>, <<"a", "b">>, <<"b">>}

\* Two pairs with a value that holds the delimiter: ("a-b", "b"), ("a", "a-b").
DelimitedPairs == {<< <<"a", "-", "b">>, <<"b">> >>, << <<"a">>, <<"a", "-", "b">> >>}

Pairs == (Values \X Values) \cup DelimitedPairs

ScoreValues == {0, 1}

Groupings == {<<"sector", "region">>, <<"sector", "sector">>}

Range(seq) == {seq[i] : i \in DOMAIN seq}

DelimFree(str) == Delim \notin Range(str)

\* A float of the numpy grid: a number, or NaN.
Num(x) == <<"num", x>>

NaN == <<"nan">>

\* Python's s < t on strings: lexicographic by code point, a proper prefix
\* first.
RECURSIVE StrLess(_, _)
StrLess(str, t) ==
    IF t = <<>> THEN FALSE
    ELSE IF str = <<>> THEN TRUE
    ELSE IF Head(str) # Head(t) THEN CharCode(Head(str)) < CharCode(Head(t))
    ELSE StrLess(Tail(str), Tail(t))

\* Splitting that loses the piece after the last delimiter.
RECURSIVE Split_DropLast(_)
Split_DropLast(str) ==
    IF str = <<>> THEN << <<>> >>
    ELSE IF Head(str) = Delim THEN << <<>>, <<>> >>
    ELSE [Split_DropLast(Tail(str)) EXCEPT ![1] = <<Head(str)>> \o @]

\* charts.py:195, combination.split('-'): the pieces between all the
\* delimiters, in order; a string without delimiter is its only piece.
RECURSIVE Split(_)
Split(str) ==
    IF str = <<>> THEN << <<>> >>
    ELSE IF Head(str) = Delim THEN << <<>> >> \o Split(Tail(str))
    ELSE [Split(Tail(str)) EXCEPT ![1] = <<Head(str)>> \o @]

\* charts.py:206: the key of a pair of labels.
Encode(a, b) == a \o <<Delim>> \o b

\* charts.py:196-199: append an item to a list of groups unless it is there.
AddItem(groups, g, item) ==
    IF item \in Range(groups[g]) THEN groups
    ELSE [groups EXCEPT ![g] = Append(@, item)]

\* charts.py:194-199: the loop over the keys. Unpacking the pieces of a key
\* into two names raises ValueError unless there are exactly two. groups is
\* the dict of charts.py:193, which has one entry when the dimensions are
\* equal.
RECURSIVE CollectGroups(_, _, _, _, _)
CollectGroups(combinations, groups, decoded, g1, g2) ==
    IF combinations = <<>>
    THEN [exc |-> "none", groups |-> groups, decoded |-> decoded]
    ELSE IF Len(Split(Head(combinations))) # 2
    THEN [exc |-> "ValueError", groups |-> groups, decoded |-> decoded]
    ELSE CollectGroups(Tail(combinations),
                       AddItem(AddItem(groups, g1, Split(Head(combinations))[1]),
                               g2, Split(Head(combinations))[2]),
                       Append(decoded, <<Split(Head(combinations))[1],
                                         Split(Head(combinations))[2]>>),
                       g1, g2)

RECURSIVE InsertSorted(_, _)
InsertSorted(x, seq) ==
    IF seq = <<>> THEN <<x>>
    ELSE IF StrLess(x, Head(seq)) THEN <<x>> \o seq
    ELSE <<Head(seq)>> \o InsertSorted(x, Tail(seq))

\* A list left in the order its items were first met.
Sorted_Unsorted(seq) == seq

\* charts.py:200-201, sorted(list): ascending, by Python's string order.
RECURSIVE Sorted(_)
Sorted(seq) ==
    IF seq = <<>> THEN <<>>
    ELSE InsertSorted(Head(seq), Sorted(Tail(seq)))

\* The score stored under a key of the slice.
ScoreOf(entries, key) == (CHOOSE e \in Range(entries) : e.key = key).score

Keys(entries) == {e.key : e \in Range(entries)}

\* A grid whose absent cells keep the zero np.zeros gave them.
Grid_ZeroForAbsent(entries, axis_1, axis_2) ==
    [i \in DOMAIN axis_2 |->
        [j \in DOMAIN axis_1 |->
            IF Encode(axis_1[j], axis_2[i]) \in Keys(entries)
            THEN Num(ScoreOf(entries, Encode(axis_1[j], axis_2[i])))
            ELSE Num(0)]]

\* charts.py:203-210: rows follow the second dimension's labels, columns the
\* first's; a cell holds the score of its key, or NaN when the key is absent.
Grid(entries, axis_1, axis_2) ==
    [i \in DOMAIN axis_2 |->
        [j \in DOMAIN axis_1 |->
            IF Encode(axis_1[j], axis_2[i]) \in Keys(entries)
            THEN Num(ScoreOf(entries, Encode(axis_1[j], axis_2[i])))
            ELSE NaN]]

\* charts.py:200-210 with c the outcome of the loop over the keys.
GridFrom(entries, c, g1, g2) ==
    IF c.exc # "none"
    THEN [exc |-> c.exc, decoded |-> c.decoded, axis_1 |-> <<>>, axis_2 |-> <<>>,
          grid |-> <<>>]
    ELSE [exc |-> "none", decoded |-> c.decoded,
          axis_1 |-> Sorted(c.groups[g1]), axis_2 |-> Sorted(c.groups[g2]),
          grid |-> Grid(entries, Sorted(c.groups[g1]), Sorted(c.groups[g2]))]

\* A builder that reads the first key before the loop, which a slice without
\* keys does not have.
plot_grouped_heatmap_FirstKey(entries, g1, g2) ==
    IF entries = <<>>
    THEN [exc |-> "IndexError", decoded |-> <<>>, axis_1 |-> <<>>, axis_2 |-> <<>>,
          grid |-> <<>>]
    ELSE GridFrom(entries,
                  CollectGroups([i \in DOMAIN entries |-> entries[i].key],
                                [g \in {g1, g2} |-> <<>>], <<>>, g1, g2),
                  g1, g2)

\* charts.py:185-210: the labels and the grid computed from a slice.
plot_grouped_heatmap(entries, g1, g2) ==
    GridFrom(entries,
             CollectGroups([i \in DOMAIN entries |-> entries[i].key],
                           [g \in {g1, g2} |-> <<>>], <<>>, g1, g2),
             g1, g2)

\* The slices of the model: up to MaxKeys entries with distinct keys, in
\* every order.
Entries == [pair : Pairs, score : ScoreValues]

KeyOf(e) == Encode(e.pair[1], e.pair[2])

\* A dict holds a key once.
DistinctKeys(q) == \A i, j \in DOMAIN q : i # j => KeyOf(q[i]) # KeyOf(q[j])

InitGrid ==
    /\ UiInit
    /\ pc = "input"
    /\ \E n \in 0..MaxKeys :
          \E q \in [1..n -> Entries] :
             /\ DistinctKeys(q)
             /\ slice = [i \in 1..n |-> q[i] @@ [key |-> KeyOf(q[i])]]
    /\ grouping \in Groupings
    /\ built = <<>>
    /\ ReshapeIdle

BuildGrid ==
    /\ pc = "input"
    /\ pc' = "done"
    /\ built' = plot_grouped_heatmap(slice, grouping[1], grouping[2])
    /\ UNCHANGED <<slice, grouping, uiVars, reshapeVars>>

NextGrid == BuildGrid

SpecGrid == InitGrid /\ [][NextGrid]_vars

(***************************************************************************)
(* Part 3: actions.py:54-60, the aggregated table.                         *)
(*                                                                         *)
(* aggregated_scores.dict() is a nested dict: time frame -> scope -> the   *)
(* aggregation of that pair. A time frame that was not requested holds     *)
(* None; under a requested time frame, a scope that was not requested or   *)
(* has no data holds None, every other scope a dict whose 'all' entry      *)
(* holds the score. None is Absent, a dict d is Some(d). A score is a      *)
(* natural number of thousandths, a table cell a float of hundredths.      *)
(***************************************************************************)
MaxApply == 2

\* Scores in thousandths; 0.125 and 0.375 are halfway between two hundredths.
ScoreThousandths == {0, 125, 375, 1234, 1236}

\* The value a pandas cell shows for None.
Null == <<"null">>

\* Python's truth value of a dict or None: false for None and for {}.
Truthy(opt) == opt # Absent /\ DOMAIN opt[1] # {}

\* Python's round(x, 2) on an exactly represented x: the nearest hundredth,
\* the even one when x is halfway.
Round2(n) ==
    IF n % 10 < 5 THEN n \div 10
    ELSE IF n % 10 > 5 THEN (n \div 10) + 1
    ELSE IF (n \div 10) % 2 = 0 THEN n \div 10
    ELSE (n \div 10) + 1

\* A cell function that takes a score of 0 for a missing score.
RoundedAllScore_FalsyScore(y) ==
    IF /\ Truthy(y)
       /\ "all" \in DOMAIN y[1]
       /\ Truthy(y[1].all)
       /\ "score" \in DOMAIN y[1].all[1]
       /\ y[1].all[1].score # 0
    THEN Num(Round2(y[1].all[1].score))
    ELSE Null

\* actions.py:58: round(y['all']['score'], 2) if y and y.get('all') and
\* 'score' in y['all'] else None.
RoundedAllScore(y) ==
    IF /\ Truthy(y)
       /\ "all" \in DOMAIN y[1]
       /\ Truthy(y[1].all)
       /\ "score" \in DOMAIN y[1].all[1]
    THEN Num(Round2(y[1].all[1].score))
    ELSE Null

\* actions.py:55, pd.DataFrame(d) of a dict of dicts: one column per outer
\* key, one row per inner key; the column of a None is None in every row.
DataFrame(d) ==
    [tf \in DOMAIN d |->
        [sc \in Scopes |-> IF d[tf] = Absent THEN Absent ELSE d[tf][1][sc]]]

\* actions.py:55-60: .apply(lambda x: x.map(...)) maps every cell of every
\* column.
Reshape(d) ==
    [tf \in DOMAIN DataFrame(d) |->
        [sc \in DOMAIN DataFrame(d)[tf] |-> RoundedAllScore(DataFrame(d)[tf][sc])]]

\* The aggregation of one requested pair: None without data, else its dict.
Aggregations ==
    {Absent} \cup {Some([all |-> Some([score |-> n])]) : n \in ScoreThousandths}

\* The dict the engine returns for the requested time frames and scopes.
ScoresDict(tfs, scs, agg) ==
    [tf \in TimeFrames |->
        IF tf \in tfs
        THEN Some([sc \in Scopes |-> IF sc \in scs THEN agg[tf][sc] ELSE Absent])
        ELSE Absent]

InitReshape ==
    /\ UiInit
    /\ GridIdle
    /\ \E tfs \in (SUBSET TimeFrames) \ {{}}, scs \in (SUBSET Scopes) \ {{}} :
          \E agg \in [tfs -> [scs -> Aggregations]] :
             /\ aggregated_scores = ScoresDict(tfs, scs, agg)
             /\ input_scores = Some([selected_timeframes |-> tfs,
                                     selected_scopes |-> scs,
                                     scores |-> ScoresDict(tfs, scs, agg)])
    /\ aggregated_df = <<>>
    /\ tables = <<>>

\* actions.py:55-60 run on the scores: .dict() copies them, the lambda only
\* reads its argument, and the table is a new object.
ReshapeScores ==
    /\ input_scores # Absent
    /\ Len(tables) < MaxApply
    /\ aggregated_df' = Reshape(aggregated_scores)
    /\ tables' = Append(tables, Reshape(aggregated_scores))
    /\ UNCHANGED <<aggregated_scores, input_scores, uiVars, gridVars>>

NextReshape == ReshapeScores

SpecReshape == InitReshape /\ [][NextReshape]_vars

(***************************************************************************)
(* Properties of the page script.                                          *)
(***************************************************************************)
\* The bundle a run with the current widget values is to store.
ExpectedBundle ==
    Bundle(StoreResults(FreshSession,
                        ResultsWithIntermediates(provider_file, portfolio_file,
                                                 selected_timeframes, selected_scopes,
                                                 agg_method),
                        selected_timeframes, selected_scopes, agg_method))

\* C1: after a rerun caused by a click on "Run calculation" with both files
\* uploaded, in which no parser and no engine step raises, the session holds
\* calculation_complete and the tables, coverage, export bytes, provider,
\* portfolio and parameters of that run.
C1_RunPopulatesSession ==
    (/\ last.cause = "run_btn"
     /\ provider_file # None
     /\ portfolio_file # None
     /\ last.fault = "none")
        => Bundle(session_state) = ExpectedBundle

\* C2: a rerun in which the call of run_calculation raised leaves every key of
\* the bundle as it was, so the bundle is never stored in part.
C2_FailedRunKeepsBundle ==
    [][(last'.called /\ last'.exc # "none")
          => Bundle(session_state') = Bundle(session_state)]_vars

\* A run raised and the session, unpopulated before it, is still unpopulated.
C2_Witness ==
    /\ last.called
    /\ last.exc # "none"
    /\ Bundle(session_state) = Bundle(FreshSession)

\* C4: run_calculation is called only in a rerun that a click on
\* "Run calculation" caused.
C4_CalledOnlyOnRunClick ==
    last.called => last.cause = "run_btn"

\* C5: the number of run_calculation calls never exceeds the number of clicks
\* on "Run calculation".
C5_CallsAtMostClicks ==
    calls <= clicks

\* Two clicks made while a file was missing, then one call.
C5_Witness ==
    /\ clicks = 2
    /\ calls = 1
    /\ last.called

\* C3: a rerun caused by "Generate Charts" leaves every key of the bundle as it
\* was, whether the grouped calculation was called, returned or raised.
C3_GenerateChartsKeepsBundle ==
    [][last'.cause = "generate_charts_btn"
          => Bundle(session_state') = Bundle(session_state)]_vars

\* The grouped calculation was called for a heatmap and raised.
C3_Witness ==
    /\ last.cause = "generate_charts_btn"
    /\ last.grouped
    /\ last.gexc # "none"
    /\ Get(session_state.calculation_complete, FALSE)

\* C6: "Generate Charts" for a heatmap with equal grouping dimensions shows the
\* validation error, does not call the grouped calculation and draws nothing.
C6_EqualGroupsRejected ==
    (/\ last.cause = "generate_charts_btn"
     /\ chart_type = "Heatmap"
     /\ group_1 = group_2)
        => /\ ~last.grouped
           /\ MsgSameGroups \in last.errors
           /\ last.chart = "none"

\* A heatmap was requested with equal grouping dimensions.
C6_Witness ==
    /\ last.cause = "generate_charts_btn"
    /\ chart_type = "Heatmap"
    /\ group_1 = group_2
    /\ MsgSameGroups \in last.errors

SliceDelimFree ==
    \A e \in Range(slice) : DelimFree(e.pair[1]) /\ DelimFree(e.pair[2])

PresentPairs == {e.pair : e \in Range(slice)}

Ascending(seq) == \A i, j \in DOMAIN seq : i < j => StrLess(seq[i], seq[j])

\* C8: for a slice of keys joined from delimiter-free values and two different
\* dimensions, the grid has one row per distinct second value and one column
\* per distinct first value; every present key has exactly one cell, which
\* holds its score; every other cell holds NaN, which is not the score 0.
C8_GridShapeAndCells ==
    (pc = "done" /\ SliceDelimFree /\ grouping[1] # grouping[2])
        => /\ built.exc = "none"
           /\ Len(built.axis_2) = Cardinality({pr[2] : pr \in PresentPairs})
           /\ Len(built.axis_1) = Cardinality({pr[1] : pr \in PresentPairs})
           /\ DOMAIN built.grid = DOMAIN built.axis_2
           /\ \A i \in DOMAIN built.grid : DOMAIN built.grid[i] = DOMAIN built.axis_1
           /\ \A e \in Range(slice) :
                 /\ Cardinality({c \in (DOMAIN built.axis_2) \X (DOMAIN built.axis_1) :
                                   <<built.axis_1[c[2]], built.axis_2[c[1]]>> = e.pair}) = 1
                 /\ \A i \in DOMAIN built.axis_2, j \in DOMAIN built.axis_1 :
                       <<built.axis_1[j], built.axis_2[i]>> = e.pair
                           => built.grid[i][j] = Num(e.score)
           /\ \A i \in DOMAIN built.axis_2, j \in DOMAIN built.axis_1 :
                 <<built.axis_1[j], built.axis_2[i]>> \notin PresentPairs
                     => built.grid[i][j] = NaN /\ built.grid[i][j] # Num(0)

\* Three keys over two by two labels: one cell is missing, one score is 0.
C8_Witness ==
    /\ pc = "done"
    /\ SliceDelimFree
    /\ grouping[1] # grouping[2]
    /\ Len(slice) = 3
    /\ Len(built.axis_1) = 2
    /\ Len(built.axis_2) = 2
    /\ \E i, j \in 1..2 : built.grid[i][j] = NaN
    /\ \E i, j \in 1..2 : built.grid[i][j] = Num(0)

\* C9: both label sequences are strictly ascending in Python's string order,
\* hence free of duplicates, whatever the order of the slice; the cell in row
\* i and column j belongs to the pair (axis_1[j], axis_2[i]).
C9_AxesSortedGridIndexed ==
    (pc = "done" /\ built.exc = "none")
        => /\ Ascending(built.axis_1)
           /\ Ascending(built.axis_2)
           /\ \A i, j \in DOMAIN built.axis_1 : i # j => built.axis_1[i] # built.axis_1[j]
           /\ \A i, j \in DOMAIN built.axis_2 : i # j => built.axis_2[i] # built.axis_2[j]
           /\ \A i \in DOMAIN built.axis_2, j \in DOMAIN built.axis_1 :
                 \A e \in Range(slice) :
                     e.pair = <<built.axis_1[j], built.axis_2[i]>>
                         => built.grid[i][j] = Num(e.score)

\* A slice that meets "b" before "ab" and "a", and a grid that is not square.
C9_Witness ==
    /\ pc = "done"
    /\ built.exc = "none"
    /\ grouping[1] # grouping[2]
    /\ Len(slice) = 3
    /\ slice[1].pair[1] = <<"b">>
    /\ slice[2].pair[1] = <<"a", "b">>
    /\ slice[3].pair[1] = <<"a">>
    /\ built.axis_1 = << <<"a">>, <<"a", "b">>, <<"b">> >>
    /\ Len(built.axis_2) = 1

\* C10: a key joined from two delimiter-free values decodes to those two
\* values.
C10_DecodeInvertsEncode ==
    pc = "done"
        => \A i \in DOMAIN slice :
              (\A k \in 1..i : DelimFree(slice[k].pair[1]) /\ DelimFree(slice[k].pair[2]))
                  => /\ i \in DOMAIN built.decoded
                     /\ built.decoded[i] = slice[i].pair

\* A key of two values, one of them two characters long, was decoded.
C10_Witness ==
    /\ pc = "done"
    /\ Len(slice) >= 1
    /\ slice[1].pair = << <<"a", "b">>, <<"b">> >>
    /\ built.decoded # <<>>
    /\ built.decoded[1] = << <<"a", "b">>, <<"b">> >>

\* The text of str before its first delimiter.
RECURSIVE BeforeFirst(_)
BeforeFirst(str) ==
    IF str = <<>> \/ Head(str) = Delim THEN <<>>
    ELSE <<Head(str)>> \o BeforeFirst(Tail(str))

\* All the text of str after its first delimiter.
RECURSIVE AfterFirst(_)
AfterFirst(str) ==
    IF str = <<>> THEN <<>>
    ELSE IF Head(str) = Delim THEN Tail(str)
    ELSE AfterFirst(Tail(str))

\* C11: every key of the slice, each of which holds at least one delimiter,
\* is decoded without an exception into the text before its first delimiter
\* and all the text after it, also when it holds two delimiters or more.
C11_DecodeSplitsOnFirst ==
    pc = "done"
        => /\ built.exc = "none"
           /\ \A i \in DOMAIN slice :
                 /\ Delim \in Range(slice[i].key)
                 /\ i \in DOMAIN built.decoded
                 /\ built.decoded[i] = <<BeforeFirst(slice[i].key),
                                         AfterFirst(slice[i].key)>>

\* C13: for a slice without keys the builder raises nothing: both label
\* sequences are empty and the grid is empty, with no row and no column.
C13_EmptySliceBuildsEmptyGrid ==
    (pc = "done" /\ slice = <<>>)
        => /\ built.exc = "none"
           /\ built.axis_1 = <<>>
           /\ built.axis_2 = <<>>
           /\ DOMAIN built.grid = {}
           /\ built.decoded = <<>>

\* The builder has run on a slice without keys, for two different dimensions.
C13_Witness ==
    /\ pc = "done"
    /\ slice = <<>>
    /\ grouping = <<"sector", "region">>
    /\ built.exc = "none"
    /\ Len(built.grid) = 0

(***************************************************************************)
(* Properties of the aggregated table.                                     *)
(***************************************************************************)
\* The 'all' cell of a requested pair is there, with a score.
HasAllScore(tf, sc) == input_scores[1].scores[tf][1][sc] # Absent

AllScore(tf, sc) == input_scores[1].scores[tf][1][sc][1].all[1].score

\* C12: the aggregated table has a cell for every requested (time frame,
\* scope) pair; where the scores hold an 'all' cell with a score for the pair
\* (0 included) the cell is a number of hundredths nearest to that score, and
\* the cell is null exactly where the 'all' cell is absent; making the table
\* leaves the scores as the engine returned them, and making it again from
\* the same scores gives the same table.
C12_AggregatedTable ==
    tables # <<>>
        => /\ aggregated_scores = input_scores[1].scores
           /\ aggregated_df = tables[Len(tables)]
           /\ \A k \in DOMAIN tables : tables[k] = tables[1]
           /\ \A tf \in input_scores[1].selected_timeframes,
                 sc \in input_scores[1].selected_scopes :
                 /\ tf \in DOMAIN aggregated_df
                 /\ sc \in DOMAIN aggregated_df[tf]
                 /\ HasAllScore(tf, sc)
                       => \E h \in 0..1000 :
                             /\ aggregated_df[tf][sc] = Num(h)
                             /\ 10 * h - AllScore(tf, sc) \in -5..5
                 /\ (aggregated_df[tf][sc] = Null) <=> ~HasAllScore(tf, sc)

\* The table was made twice from scores with a 0, a score halfway between two
\* hundredths and an absent 'all' cell.
C12_Witness ==
    /\ Len(tables) = 2
    /\ input_scores[1].selected_timeframes = TimeFrames
    /\ input_scores[1].selected_scopes = Scopes
    /\ aggregated_df["SHORT"]["S1"] = Num(0)
    /\ HasAllScore("SHORT", "S2")
    /\ AllScore("SHORT", "S2") = 125
    /\ aggregated_df["SHORT"]["S2"] = Num(12)
    /\ ~HasAllScore("LONG", "S1")
    /\ aggregated_df["LONG"]["S1"] = Null
    /\ aggregated_df["LONG"]["S2"] = Num(124)

====
